---- MODULE Spec2Model ----
(***************************************************************************)
(* A model of two page objects of the CFME browser test harness:           *)
(*   - VMConsole   (cfme/common/vm_console.py): window-focus hand-off,     *)
(*     banner reading, canvas capture, polling for the connected state;    *)
(*   - Datastore   (cfme/infrastructure/datastore.py): navigation state,   *)
(*     exists, wait_for_delete / wait_for_appear, the attached-item        *)
(*     actions.                                                            *)
(* The browser (selenium, the DOM, the appliance) is the environment: what *)
(* it answers to a lookup or a script is an input of the action that asks. *)
(***************************************************************************)
EXTENDS Integers, Sequences, FiniteSets, TLC

VARIABLES
    \* ---- VMConsole and its browser session
    console_handle,     \* VMConsole.console_handle
    appliance_handle,   \* VMConsole.appliance_handle
    focus,              \* the handle last passed to selenium.switch_to_window
    switchLog,          \* every handle passed to switch_to_window, in order
    trace,              \* the browser calls of the last operation (or poll)
    lastOp,             \* the last VMConsole method called by the test
    ret,                \* what that call returned, or the exception it raised
    answer,             \* the text the browser gave last: banner text or data URL
    sent,               \* what the console received last: keys or a button click
    calls,              \* operations started by the test
    pairs,              \* get_banner/get_screen/send_* bodies run so far
    allOk,              \* no operation has raised so far
    \* ---- wait_for inside wait_for_connect
    wpc,                \* "idle", "poll" or "sleep"
    elapsed,            \* seconds since wait_for started
    num_sec,            \* its timeout
    pollTimes,          \* the value of elapsed at each poll
    pollVals,           \* what each poll gave: "True", "False" or its exception
    \* ---- Datastore and its browser session
    version,            \* the appliance's version: "lowest" or "5.6"
    page,               \* the page the browser shows
    dtrace,             \* the browser calls of the last Datastore operation
    dOp,                \* the last Datastore method called, and on which object
    dret,               \* what it returned or raised
    dEnv,               \* what the browser answered during the last exists
    dExists,            \* what the last evaluation of exists gave
    dcalls,             \* Datastore operations started
    dpc,                \* "idle", "poll" or "sleep" (wait_for_delete/appear)
    delapsed,           \* seconds since that wait_for started
    dpolls              \* polls made by that wait_for

consoleVars == <<console_handle, appliance_handle, focus, switchLog, trace, lastOp,
                 ret, answer, sent, calls, pairs, allOk,
                 wpc, elapsed, num_sec, pollTimes, pollVals>>
datastoreVars == <<version, page, dtrace, dOp, dret, dEnv, dExists, dcalls, dpc,
                   delapsed, dpolls>>
vars == <<consoleVars, datastoreVars>>

-----------------------------------------------------------------------------
\* Bounds of the model.
MaxCalls == 2        \* operations the test starts on one console
MaxTimeout == 5      \* largest timeout passed to wait_for_connect
MaxBytes == 2        \* longest arbitrary byte string drawn on the canvas
MaxQuads == 2        \* most quadicons listed on a hosts/VMs subview
MaxDCalls == 2       \* operations the test starts on the datastore pages

-----------------------------------------------------------------------------
\* Python values: a call returns a value or raises.
PyNone == [type |-> "NoneType", val |-> "None"]
PyBool(b) == [type |-> "bool", val |-> IF b THEN "True" ELSE "False"]
PyStr(s) == [type |-> "str", val |-> s]
PyBytes(s) == [type |-> "bytes", val |-> s]
PyList(n) == [type |-> "list", val |-> n]
PyResult(v) == [type |-> "WaitForResult", val |-> v]
Raise(e) == [type |-> "raise", val |-> e]
Raised(r) == r.type = "raise"

\* Strings are sequences of characters.
S_Connected == <<"C","o","n","n","e","c","t","e","d">>
S_Connecting == <<"C","o","n","n","e","c","t","i","n","g">>
S_ConnectedTo == S_Connected \o <<" ","t","o"," ","v","m">>
S_NotConnected == <<"N","o","t"," ">> \o S_Connected
S_Connect == <<"C","o","n","n","e","c","t">>
S_lower == <<"c","o","n","n","e","c","t","e","d">>

\* The texts the banner element may show.
Banners == { <<>>, S_Connected, S_Connecting, S_ConnectedTo, S_NotConnected,
             S_Connect, S_lower }

\* What the browser may answer when asked for the banner: the element is
\* there with some text, or it is not there.
BannerEnvs == { [present |-> TRUE, text |-> t] : t \in Banners }
                  \cup { [present |-> FALSE, text |-> <<>>] }

banner_id == "noVNC_status"
canvas_id == "noVNC_canvas"
ctrl_alt_del_id == "sendCtrlAltDelButton"

-----------------------------------------------------------------------------
\* re.match(pattern, string) for a pattern of literal characters: the match
\* is tried at position 0 only.
re_search(pattern, string) ==
    IF \E i \in 1..Len(string) :
           /\ i + Len(pattern) - 1 <= Len(string)
           /\ SubSeq(string, i, i + Len(pattern) - 1) = pattern
    THEN "Match" ELSE "None"

re_match(pattern, string) ==
    IF Len(string) >= Len(pattern) /\ SubSeq(string, 1, Len(pattern)) = pattern
    THEN "Match" ELSE "None"

\* str.split(sep): the pieces of s between the occurrences of sep.
RECURSIVE split_from(_, _, _, _)
split_from(s, sep, i, piece) ==
    IF i > Len(s) THEN <<piece>>
    ELSE IF s[i] = sep THEN <<piece>> \o split_from(s, sep, i + 1, <<>>)
    ELSE split_from(s, sep, i + 1, Append(piece, s[i]))
split(s, sep) == split_from(s, sep, 1, <<>>)

\* The base64 alphabet; B64Val gives a character's six bits.
B64Chars == << "A","B","C","D","E","F","G","H","I","J","K","L","M","N","O","P",
               "Q","R","S","T","U","V","W","X","Y","Z","a","b","c","d","e","f",
               "g","h","i","j","k","l","m","n","o","p","q","r","s","t","u","v",
               "w","x","y","z","0","1","2","3","4","5","6","7","8","9","+","/" >>
B64Set == { B64Chars[i] : i \in 1..64 }
B64Val(c) == (CHOOSE i \in 1..64 : B64Chars[i] = c) - 1
B64Pad == "="

Pow2(n) == IF n = 0 THEN 1 ELSE IF n = 2 THEN 4 ELSE IF n = 4 THEN 16 ELSE 64

\* binascii_find_valid: the (num+1)th character at or after position i that
\* the decoding table knows (the pad is one of them), or "none".
RECURSIVE find_valid(_, _, _)
find_valid(s, i, num) ==
    IF i > Len(s) THEN "none"
    ELSE IF s[i] \in B64Set \cup {B64Pad}
         THEN IF num = 0 THEN s[i] ELSE find_valid(s, i + 1, num - 1)
         ELSE find_valid(s, i + 1, num)

\* binascii.a2b_base64, which base64.b64decode calls: characters outside the
\* alphabet are skipped, a pad that closes a quad ends the input, and bits
\* left over at the end are an error ("Incorrect padding").
RECURSIVE a2b_base64(_, _, _, _, _, _)
a2b_base64(s, i, quad_pos, leftchar, leftbits, out) ==
    IF i > Len(s) THEN [ok |-> leftbits = 0, data |-> out]
    ELSE IF s[i] = B64Pad
         THEN IF quad_pos < 2 \/ (quad_pos = 2 /\ find_valid(s, i, 1) # B64Pad)
              THEN a2b_base64(s, i + 1, quad_pos, leftchar, leftbits, out)
              ELSE [ok |-> TRUE, data |-> out]
    ELSE IF s[i] \notin B64Set
         THEN a2b_base64(s, i + 1, quad_pos, leftchar, leftbits, out)
    ELSE LET lc == leftchar * 64 + B64Val(s[i])
             lb == leftbits + 6
         IN  IF lb >= 8
             THEN a2b_base64(s, i + 1, (quad_pos + 1) % 4, lc % Pow2(lb - 8), lb - 8,
                             Append(out, (lc \div Pow2(lb - 8)) % 256))
             ELSE a2b_base64(s, i + 1, (quad_pos + 1) % 4, lc, lb, out)

b64decode(s) == a2b_base64(s, 1, 0, 0, 0, <<>>)

\* What canvas.toDataURL('image/png') does in the browser: the standard
\* base64 encoding of the image's bytes behind the data-URL prefix.
B64Char(v) == B64Chars[v + 1]
RECURSIVE b64encode(_)
b64encode(bs) ==
    IF Len(bs) = 0 THEN <<>>
    ELSE IF Len(bs) = 1
         THEN << B64Char(bs[1] \div 4), B64Char((bs[1] % 4) * 16), B64Pad, B64Pad >>
    ELSE IF Len(bs) = 2
         THEN << B64Char(bs[1] \div 4),
                 B64Char(((bs[1] % 4) * 16) + (bs[2] \div 16)),
                 B64Char((bs[2] % 16) * 4), B64Pad >>
    ELSE << B64Char(bs[1] \div 4),
            B64Char(((bs[1] % 4) * 16) + (bs[2] \div 16)),
            B64Char(((bs[2] % 16) * 4) + (bs[3] \div 64)),
            B64Char(bs[3] % 64) >> \o b64encode(SubSeq(bs, 4, Len(bs)))

DataUrlPrefix == << "d","a","t","a",":","i","m","a","g","e","/","p","n","g",";",
                    "b","a","s","e","6","4","," >>
toDataURL(bs) == DataUrlPrefix \o b64encode(bs)

\* The images the canvas may hold: every byte string up to MaxBytes over a
\* few byte values, and strings that start with the PNG signature.
ByteVals == {0, 137, 255}
PngSignature == <<137, 80, 78, 71, 13, 10, 26, 10>>
BytesUpTo(n) == UNION { [1..k -> ByteVals] : k \in 0..n }
CanvasImages == BytesUpTo(MaxBytes) \cup { PngSignature, PngSignature \o <<0, 0, 0, 13>> }

\* What execute_script may answer: a data URL of an image, or something
\* malformed (no comma at all; a payload cut short).
BadUrls == { <<"d","a","t","a",":">>,
             DataUrlPrefix \o <<"i","V","B">>,
             DataUrlPrefix \o <<"i">> }
ScriptResults == { toDataURL(bs) : bs \in CanvasImages } \cup BadUrls

\* What the browser may answer in get_screen: the canvas is there and the
\* script gives one of these, or the canvas is not there.
ScreenEnvs == { [present |-> TRUE, url |-> u] : u \in ScriptResults }
                  \cup { [present |-> FALSE, url |-> <<>>] }

\* What send_keys may be given.
Texts == { "cirros\n", "touch /tmp/blather\n" }

-----------------------------------------------------------------------------
\* VMConsole.  An operation takes the browser session b = [focus, log, trace,
\* sent] and what the browser answers, and gives the session it leaves and
\* what it returns: [b |-> ..., ret |-> ...].

\* One step of an operation, recorded with the window that has focus when it
\* is taken and whether it succeeded (ok) or raised.
Call(b, name, arg, ok) ==
    [b EXCEPT !.trace = Append(@, [call |-> name, arg |-> arg, focus |-> b.focus,
                                   ok |-> ok])]

switch_to_window(b, handle) ==
    [b EXCEPT !.focus = handle,
              !.log = Append(@, handle),
              !.trace = Append(@, [call |-> "switch_to_window", arg |-> handle,
                                   focus |-> handle, ok |-> TRUE])]

switch_to_appliance(b) == switch_to_window(b, appliance_handle)

switch_to_console(b) == switch_to_window(b, console_handle)

find_element_by_id(b, id, present) == Call(b, "find_element_by_id", id, present)

get_banner_restoring(b, env) ==
    LET b1 == switch_to_console(b)
        b2 == find_element_by_id(b1, banner_id, env.present)
    IN  IF ~env.present
        THEN [b |-> switch_to_appliance(b2), ret |-> Raise("NoSuchElementException")]
        ELSE [b |-> switch_to_appliance(b2), ret |-> PyStr(env.text)]

\* get_banner: env = [present, text] is whether the banner element is there
\* and the text it shows.
get_banner(b, env) ==
    LET b1 == switch_to_console(b)
        b2 == find_element_by_id(b1, banner_id, env.present)
    IN  IF ~env.present
        THEN [b |-> b2, ret |-> Raise("NoSuchElementException")]
        ELSE [b |-> switch_to_appliance(b2), ret |-> PyStr(env.text)]

image_base64_first_piece(url) == [ok |-> TRUE, data |-> split(url, ",")[1]]

\* image_base64_url.split(",")[1]: the second piece, IndexError without one.
image_base64(url) ==
    LET pieces == split(url, ",")
    IN  IF Len(pieces) < 2 THEN [ok |-> FALSE, data |-> <<>>]
        ELSE [ok |-> TRUE, data |-> pieces[2]]

\* get_screen: env = [present, url] is whether the canvas element is there and
\* what the toDataURL script answers.
get_screen(b, env) ==
    LET b1 == switch_to_console(b)
        b2 == find_element_by_id(b1, canvas_id, env.present)
        b3 == Call(b2, "execute_script", canvas_id, TRUE)
        b64 == image_base64(env.url)
        b4 == Call(b3, "split", ",", b64.ok)
        png == b64decode(b64.data)
        b5 == Call(b4, "b64decode", "", png.ok)
    IN  IF ~env.present THEN [b |-> b2, ret |-> Raise("NoSuchElementException")]
        ELSE IF ~b64.ok THEN [b |-> b4, ret |-> Raise("IndexError")]
        ELSE IF ~png.ok THEN [b |-> b5, ret |-> Raise("binascii.Error")]
        ELSE [b |-> switch_to_appliance(b5), ret |-> PyBytes(png.data)]

is_connected(b, env) ==
    LET banner == get_banner(b, env)
    IN  IF Raised(banner.ret) THEN banner
        ELSE [b |-> banner.b,
              ret |-> PyBool(re_match(S_Connected, banner.ret.val) # "None")]

send_keys_staying(b, env, text) ==
    LET b1 == switch_to_console(b)
        b2 == find_element_by_id(b1, canvas_id, env.present)
        b3 == [Call(b2, "send_keys", text, TRUE) EXCEPT
                   !.sent = [to |-> canvas_id, what |-> text]]
    IN  IF ~env.present THEN [b |-> b2, ret |-> Raise("NoSuchElementException")]
        ELSE [b |-> b3, ret |-> PyNone]

\* send_keys: env = [present] is whether the canvas element is there.
send_keys(b, env, text) ==
    LET b1 == switch_to_console(b)
        b2 == find_element_by_id(b1, canvas_id, env.present)
        b3 == [Call(b2, "send_keys", text, TRUE) EXCEPT
                   !.sent = [to |-> canvas_id, what |-> text]]
    IN  IF ~env.present THEN [b |-> b2, ret |-> Raise("NoSuchElementException")]
        ELSE [b |-> switch_to_appliance(b3), ret |-> PyNone]

\* send_ctrl_alt_delete: env = [present] is whether the button is there.
send_ctrl_alt_delete(b, env) ==
    LET b1 == switch_to_console(b)
        b2 == find_element_by_id(b1, ctrl_alt_del_id, env.present)
        b3 == [Call(b2, "click", ctrl_alt_del_id, TRUE) EXCEPT
                   !.sent = [to |-> ctrl_alt_del_id, what |-> "click"]]
    IN  IF ~env.present THEN [b |-> b2, ret |-> Raise("NoSuchElementException")]
        ELSE [b |-> switch_to_appliance(b3), ret |-> PyNone]

\* wait_for (the polling helper): it polls while the time spent is within
\* num_sec, retries a poll whose value equals fail_condition after sleeping
\* delay seconds, returns the first other value, lets an exception of the
\* polled function through, and raises TimedOutError on expiry.
wait_for_retries(out, fail_condition) == out = fail_condition

wait_for_goes_on(t_delta, timeout) == t_delta <= timeout

connect_delay_longer == 1 + 2

\* wait_for_connect passes delay=1 and fail_condition's default, False.
connect_delay == 1

\* wait_for_connect has no return statement: whatever wait_for gives, the
\* caller gets None.
wait_for_connect_returns(result) == PyNone

-----------------------------------------------------------------------------
\* The test driving one VMConsole.

Session == [focus |-> focus, log |-> switchLog, trace |-> <<>>, sent |-> sent]

Pending == [type |-> "pending", val |-> "pending"]

\* The state after an operation (or a poll) that ran one of the bodies above.
\* The locals of an earlier wait_for are gone when another operation runs.
Leaves(r) ==
    /\ focus' = r.b.focus
    /\ switchLog' = r.b.log
    /\ trace' = r.b.trace
    /\ sent' = r.b.sent
    /\ pairs' = pairs + 1
    /\ UNCHANGED <<console_handle, appliance_handle>>

Returns(op, r) ==
    /\ Leaves(r)
    /\ lastOp' = op
    /\ ret' = r.ret
    /\ allOk' = (allOk /\ ~Raised(r.ret))
    /\ calls' = calls + 1
    /\ wpc' = "idle"
    /\ elapsed' = 0
    /\ num_sec' = 0
    /\ pollTimes' = <<>>
    /\ pollVals' = <<>>

MayCall == wpc = "idle" /\ calls < MaxCalls

GetBanner ==
    /\ MayCall
    /\ \E env \in BannerEnvs :
           /\ Returns("get_banner", get_banner(Session, env))
           /\ answer' = env.text

GetScreen ==
    /\ MayCall
    /\ \E env \in ScreenEnvs :
           /\ Returns("get_screen", get_screen(Session, env))
           /\ answer' = env.url

IsConnected ==
    /\ MayCall
    /\ \E env \in BannerEnvs :
           /\ Returns("is_connected", is_connected(Session, env))
           /\ answer' = env.text

SendKeys ==
    /\ MayCall
    /\ \E present \in BOOLEAN, text \in Texts :
           Returns("send_keys", send_keys(Session, [present |-> present], text))
    /\ answer' = <<>>

SendCtrlAltDelete ==
    /\ MayCall
    /\ \E present \in BOOLEAN :
           Returns("send_ctrl_alt_delete", send_ctrl_alt_delete(Session, [present |-> present]))
    /\ answer' = <<>>

\* wait_for_connect(timeout): wait_for starts its loop.
WaitForConnect ==
    /\ MayCall
    /\ \E timeout \in 0..MaxTimeout :
           /\ num_sec' = timeout
    /\ wpc' = "poll"
    /\ elapsed' = 0
    /\ pollTimes' = <<>>
    /\ pollVals' = <<>>
    /\ lastOp' = "wait_for_connect"
    /\ ret' = Pending
    /\ calls' = calls + 1
    /\ trace' = <<>>
    /\ answer' = <<>>
    /\ UNCHANGED <<console_handle, appliance_handle, focus, switchLog, sent, pairs, allOk>>

\* One poll: func() is self.is_connected().
WaitPoll ==
    /\ wpc = "poll"
    /\ \E env \in BannerEnvs :
        LET r == is_connected(Session, env)
        IN  /\ Leaves(r)
            /\ answer' = env.text
            /\ pollTimes' = Append(pollTimes, elapsed)
            /\ pollVals' = Append(pollVals, r.ret.val)
            /\ IF Raised(r.ret)
               THEN /\ ret' = r.ret
                    /\ wpc' = "idle"
                    /\ allOk' = FALSE
               ELSE IF wait_for_retries(r.ret, PyBool(FALSE))
               THEN /\ wpc' = "sleep"
                    /\ UNCHANGED <<ret, allOk>>
               ELSE /\ ret' = wait_for_connect_returns(PyResult(r.ret))
                    /\ wpc' = "idle"
                    /\ UNCHANGED allOk
    /\ UNCHANGED <<lastOp, calls, elapsed, num_sec>>

\* After a failed poll: sleep(delay), then the loop test.
WaitSleep ==
    /\ wpc = "sleep"
    /\ elapsed' = elapsed + connect_delay
    /\ IF wait_for_goes_on(elapsed', num_sec)
       THEN /\ wpc' = "poll"
            /\ UNCHANGED <<ret, allOk>>
       ELSE /\ wpc' = "idle"
            /\ ret' = Raise("TimedOutError")
            /\ allOk' = FALSE
    /\ UNCHANGED <<console_handle, appliance_handle, focus, switchLog, trace, lastOp,
                   answer, sent, calls, pairs, num_sec, pollTimes, pollVals>>

DatastoreIdle ==
    /\ version = "lowest"
    /\ page = [kind |-> "NotLoaded", name |-> "none"]
    /\ dtrace = <<>>
    /\ dOp = [op |-> "none", ds |-> "none", arg |-> "none"]
    /\ dret = Pending
    /\ dEnv = "none"
    /\ dExists = Pending
    /\ dcalls = 0
    /\ dpc = "idle"
    /\ delapsed = 0
    /\ dpolls = 0

\* open_console has built the VMConsole from the two window handles and left
\* the browser on the appliance window.
ConsoleInit ==
    /\ console_handle = "console-window"
    /\ appliance_handle = "appliance-window"
    /\ focus = "appliance-window"
    /\ switchLog = <<>>
    /\ trace = <<>>
    /\ lastOp = "none"
    /\ ret = Pending
    /\ answer = <<>>
    /\ sent = [to |-> "none", what |-> "none"]
    /\ calls = 0
    /\ pairs = 0
    /\ allOk = TRUE
    /\ wpc = "idle"
    /\ elapsed = 0
    /\ num_sec = 0
    /\ pollTimes = <<>>
    /\ pollVals = <<>>

ConsoleNext ==
    \/ GetBanner /\ UNCHANGED datastoreVars
    \/ GetScreen /\ UNCHANGED datastoreVars
    \/ IsConnected /\ UNCHANGED datastoreVars
    \/ SendKeys /\ UNCHANGED datastoreVars
    \/ SendCtrlAltDelete /\ UNCHANGED datastoreVars
    \/ WaitForConnect /\ UNCHANGED datastoreVars
    \/ WaitPoll /\ UNCHANGED datastoreVars
    \/ WaitSleep /\ UNCHANGED datastoreVars

\* The console test leaves the datastore pages alone.
ConsoleTestInit == ConsoleInit /\ DatastoreIdle

ConsoleSpec == ConsoleTestInit /\ [][ConsoleNext]_vars

-----------------------------------------------------------------------------
\* Claims about VMConsole (checked under ConsoleSpec).

Last(q) == q[Len(q)]
Steps(t) == [i \in 1..Len(t) |-> t[i].call]
StartsWith(s, p) == Len(s) >= Len(p) /\ \A i \in 1..Len(p) : s[i] = p[i]
Called == lastOp # "none"
Finished == Called /\ wpc = "idle"

\* C1: after any VMConsole operation, returned or failed, the last handle
\* passed to switch_to_window is the appliance window's.
C1_FocusOnApplianceAfterAnyOperation ==
    Finished => focus = appliance_handle

\* C2: wait_for_connect returns True when a poll found the banner Connected
\* within the timeout.
C2_WaitForConnectReturnsTrue ==
    ( /\ lastOp = "wait_for_connect"
      /\ wpc = "idle"
      /\ pollVals # <<>>
      /\ Last(pollVals) = "True" )
    => ret = PyBool(TRUE)

\* C3: is_connected returns true exactly when the banner text that call
\* fetched starts with "Connected", and false for every other text.
C3_IsConnectedIffBannerStartsWithConnected ==
    (lastOp = "is_connected" /\ ~Raised(ret))
    => ret = PyBool(StartsWith(answer, S_Connected))

C3_Witness ==
    /\ lastOp = "is_connected"
    /\ answer = S_ConnectedTo
    /\ ret = PyBool(TRUE)

\* The loop of wait_for_connect: polls one second apart from second 0, every
\* poll but the last false, never past timeout + one interval, and able to
\* take a step whenever it is not over.
WaitLoopBounded ==
    /\ \A i \in 1..Len(pollTimes) : pollTimes[i] = (i - 1) * 1
    /\ \A i \in 1..(Len(pollVals) - 1) : pollVals[i] = "False"
    /\ Len(pollVals) = Len(pollTimes)
    /\ elapsed <= num_sec + 1
    /\ Len(pollTimes) <= num_sec + 1
    /\ (wpc = "sleep" => Last(pollVals) = "False")
    /\ (wpc # "idle" => ENABLED (WaitPoll \/ WaitSleep))
    /\ (wpc = "idle" /\ ~Raised(ret) => Last(pollVals) = "True")

\* C4 as stated: wait_for_connect always ends, polling once a second, at the
\* first true poll, and with a timeout error when no poll is true.
C4_EndsTrueOrTimeout ==
    lastOp = "wait_for_connect" =>
        /\ WaitLoopBounded
        /\ (wpc = "idle" /\ Last(pollVals) # "True" => ret = Raise("TimedOutError"))

\* C4 amended: as C4, but with a timeout error only when no poll is true and
\* no poll raises; a poll that raises ends the wait at once with its error.
C4_EndsTrueTimeoutOrPollError ==
    lastOp = "wait_for_connect" =>
        /\ WaitLoopBounded
        /\ (wpc = "idle" /\ Last(pollVals) = "False"
                => ret = Raise("TimedOutError") /\ elapsed > num_sec)
        /\ (wpc = "idle" /\ Last(pollVals) = "NoSuchElementException"
                => ret = Raise("NoSuchElementException"))
        /\ (wpc = "idle" => Last(pollVals) \in {"True", "False", "NoSuchElementException"})

C4_Witness ==
    /\ lastOp = "wait_for_connect"
    /\ wpc = "idle"
    /\ num_sec = 5
    /\ ret = Raise("TimedOutError")
    /\ Len(pollTimes) = 6
    /\ elapsed = 6

\* C5: get_screen returns the bytes whose base64 encoding follows the
\* data-URL prefix in the script's answer, after taking its steps in the order
\* switch to console, find canvas, run script, decode, switch to appliance.
C5_GetScreenDecodesDataUrl ==
    lastOp = "get_screen" =>
        \A bs \in CanvasImages :
            answer = toDataURL(bs) =>
                /\ ret = PyBytes(bs)
                /\ Steps(trace) = << "switch_to_window", "find_element_by_id",
                                     "execute_script", "split", "b64decode",
                                     "switch_to_window" >>
                /\ trace[1].arg = console_handle
                /\ trace[2].arg = canvas_id
                /\ trace[6].arg = appliance_handle

C5_Witness ==
    /\ lastOp = "get_screen"
    /\ answer = toDataURL(PngSignature)
    /\ ret = PyBytes(PngSignature)
    /\ focus = appliance_handle

\* The exception a failed step raises.
ErrorOf(step) ==
    IF step = "find_element_by_id" THEN "NoSuchElementException"
    ELSE IF step = "split" THEN "IndexError"
    ELSE "binascii.Error"

\* C9: when a step between the two focus switches fails, the error reaches
\* the caller (through is_connected and the poll of wait_for_connect too),
\* nothing is returned, no switch back is issued and focus stays on the
\* console window.
C9_FailureLeavesFocusOnConsole ==
    \A i \in 1..Len(trace) :
        ~trace[i].ok =>
            /\ i = Len(trace)
            /\ trace[i].call \in {"find_element_by_id", "split", "b64decode"}
            /\ (trace[i].call # "find_element_by_id" => lastOp = "get_screen")
            /\ ret = Raise(ErrorOf(trace[i].call))
            /\ wpc = "idle"
            /\ focus = console_handle
            /\ Last(switchLog) = console_handle
            /\ \A j \in 1..Len(trace) :
                   trace[j].call = "switch_to_window" => j = 1 /\ trace[j].arg = console_handle

C9_Witness ==
    /\ lastOp = "is_connected"
    /\ ret = Raise("NoSuchElementException")
    /\ focus = console_handle
    /\ ~Last(trace).ok

\* C10: while every operation has returned normally, the calls of
\* switch_to_window alternate console, appliance, one pair per body run (one
\* per poll in wait_for_connect); every access to the banner, the canvas or
\* the button is made with focus on the console window; the two stored
\* handles never change.
BrowserAccess == {"find_element_by_id", "execute_script", "send_keys", "click"}

C10_SwitchesAlternateInPairs ==
    /\ console_handle = "console-window"
    /\ appliance_handle = "appliance-window"
    /\ \A i \in 1..Len(trace) :
           trace[i].call \in BrowserAccess => trace[i].focus = console_handle
    /\ allOk =>
           /\ Len(switchLog) = 2 * pairs
           /\ \A i \in 1..Len(switchLog) :
                  switchLog[i] = IF i % 2 = 1 THEN console_handle ELSE appliance_handle
           /\ (trace # <<>> =>
                  /\ Cardinality({i \in 1..Len(trace) : trace[i].call = "switch_to_window"}) = 2
                  /\ trace[1].arg = console_handle
                  /\ Last(trace).arg = appliance_handle)
           /\ (lastOp = "wait_for_connect" => Len(switchLog) >= 2 * Len(pollTimes))

C10_Witness ==
    /\ allOk
    /\ calls = 2
    /\ lastOp = "wait_for_connect"
    /\ wpc = "idle"
    /\ Len(pollTimes) = 3
    /\ Len(switchLog) = 8
    /\ sent.to = canvas_id

-----------------------------------------------------------------------------
\* Datastore.  The browser shows one page at a time; d is the name of the
\* Datastore object a method is called on.  An operation takes the session
\* db = [page, trace] and what the browser answers.  (Whether the object has
\* a provider only changes the route force_navigate takes to the same detail
\* page, so the model keeps the name alone.)

DatastoreNames == {"ds1", "ds2"}
Versions == {"lowest", "5.6"}

NotLoaded == [kind |-> "NotLoaded", name |-> "none"]
ListPage == [kind |-> "List", name |-> "none"]
DetailPage(d) == [kind |-> "Detail", name |-> d]
HostsPage(d) == [kind |-> "Hosts", name |-> d]
VMsPage(d) == [kind |-> "VMs", name |-> d]

\* summary_title(): the heading of the page shown, nothing when there is none.
summary_title(p) ==
    IF p.kind = "Detail"
    THEN IF version = "lowest" THEN <<p.name, " (", "Datastore", ")">>
         ELSE <<"Datastore", " \"", p.name, "\"">>
    ELSE IF p.kind = "Hosts" THEN <<p.name, " (", "All Registered Hosts", ")">>
    ELSE IF p.kind = "VMs" THEN <<p.name, " (", "All Registered VMs", ")">>
    ELSE IF p.kind = "List" THEN <<"Datastores">>
    ELSE <<>>

\* One step of an operation, recorded with the page shown when it is taken
\* and whether it succeeded.
DCall(db, name, arg, ok) ==
    [db EXCEPT !.trace = Append(@, [call |-> name, arg |-> arg, page |-> db.page,
                                    ok |-> ok])]

GoTo(db, p) == [db EXCEPT !.page = p]

\* sel.force_navigate('infrastructure_datastores')
force_navigate_list(db) ==
    GoTo(DCall(db, "force_navigate", "infrastructure_datastores", TRUE), ListPage)

\* sel.force_navigate('infrastructure_datastore', context): through the list
\* page, then a click on the datastore's quadicon, which raises when the
\* quadicon is not there.
force_navigate_datastore(db, d, found) ==
    LET b1 == DCall(db, "force_navigate", "infrastructure_datastore", found)
    IN  IF found THEN [b |-> GoTo(b1, DetailPage(d)), ret |-> PyNone]
        ELSE [b |-> GoTo(b1, ListPage), ret |-> Raise("NoSuchElementException")]

_on_detail_page(db, d) ==
    summary_title(db.page) =
        (IF version = "lowest" THEN <<d, " (", "Datastore", ")">>
         ELSE <<"Datastore", " \"", d, "\"">>)

_on_hosts_page(db, d) == summary_title(db.page) = <<d, " (", "All Registered Hosts", ")">>

_on_vms_page(db, d) == summary_title(db.page) = <<d, " (", "All Registered VMs", ")">>

\* delete: env = [found].
delete(db, d, cancel, env) ==
    LET n == force_navigate_datastore(db, d, env.found)
        b1 == DCall(n.b, "cfg_btn", "Remove from the VMDB", TRUE)
        b2 == DCall(b1, "handle_alert", cancel, TRUE)
    IN  IF Raised(n.ret) THEN n ELSE [b |-> b2, ret |-> PyNone]

load_details_in_place(db, d, refresh, found) == [b |-> db, ret |-> PyNone]

load_details(db, d, refresh, found) ==
    IF ~_on_detail_page(db, d) THEN force_navigate_datastore(db, d, found)
    ELSE IF refresh THEN [b |-> DCall(db, "tb.refresh", "", TRUE), ret |-> PyNone]
    ELSE [b |-> db, ret |-> PyNone]

\* get_detail: env = [found].
get_detail(db, d, env) ==
    LET l == load_details(db, d, FALSE, env.found)
    IN  IF Raised(l.ret) THEN l
        ELSE [b |-> DCall(l.b, "infoblock.text", "", TRUE), ret |-> PyStr(<<>>)]

\* get_hosts: env = [found, first, second, n]: whether the quadicon is in the
\* list, whether the infoblock element is there, whether the InfoBlock tried
\* after it is there, and how many host quadicons the subview lists.
get_hosts(db, d, env) ==
    LET n == force_navigate_datastore(db, d, env.found)
        c1 == DCall(n.b, "click", "Relationships/Hosts", env.first)
        c2 == DCall(c1, "click", "InfoBlock Relationships/Hosts", env.second)
        listed(b) == [b |-> DCall(b, "Quadicon.all", "host", TRUE), ret |-> PyList(env.n)]
    IN  IF _on_hosts_page(db, d) THEN listed(db)
        ELSE IF Raised(n.ret) THEN n
        ELSE IF env.first THEN listed(GoTo(c1, HostsPage(d)))
        ELSE IF env.second THEN listed(GoTo(c2, HostsPage(d)))
        ELSE [b |-> c2, ret |-> Raise("NoSuchElementException")]

\* get_vms: env as for get_hosts, the first try being the accordion link.
get_vms(db, d, env) ==
    LET n == force_navigate_datastore(db, d, env.found)
        c1 == DCall(n.b, "list_acc.select", "Relationships/VMs", env.first)
        c2 == DCall(c1, "click", "InfoBlock Relationships/Managed VMs", env.second)
        listed(b) == [b |-> DCall(b, "Quadicon.all", "vm", TRUE), ret |-> PyList(env.n)]
    IN  IF _on_vms_page(db, d) THEN listed(db)
        ELSE IF Raised(n.ret) THEN n
        ELSE IF env.first THEN listed(GoTo(c1, VMsPage(d)))
        ELSE IF env.second THEN listed(GoTo(c2, VMsPage(d)))
        ELSE [b |-> c2, ret |-> Raise("NoSuchElementException")]

\* for q in Quadicon.all(kind): fill(q.checkbox(), True)
fill_all(db, kind, n) ==
    LET b1 == DCall(db, "Quadicon.all", kind, TRUE)
    IN  [b1 EXCEPT !.trace = @ \o [i \in 1..n |->
            [call |-> "fill", arg |-> "checkbox", page |-> b1.page, ok |-> TRUE]]]

\* delete_all_attached_vms: env = [found, first, n].
delete_all_attached_vms(db, d, env) ==
    LET l == load_details(db, d, FALSE, env.found)
        c == DCall(l.b, "click", "Relationships/Managed VMs", env.first)
        f == fill_all(GoTo(c, VMsPage(d)), "vm", env.n)
        b1 == DCall(f, "cfg_btn", "Remove selected items from the VMDB", TRUE)
        b2 == DCall(b1, "handle_alert", "cancel=False", TRUE)
    IN  IF Raised(l.ret) THEN l
        ELSE IF ~env.first THEN [b |-> c, ret |-> Raise("NoSuchElementException")]
        ELSE [b |-> b2, ret |-> PyNone]

\* delete_all_attached_hosts: env = [found, first, n].
delete_all_attached_hosts(db, d, env) ==
    LET l == load_details(db, d, FALSE, env.found)
        c == DCall(l.b, "click", "Relationships/Hosts", env.first)
        f == fill_all(GoTo(c, HostsPage(d)), "host", env.n)
        path == IF version = "lowest" THEN "Remove Hosts from the VMDB"
                ELSE "Remove items from the VMDB"
        b1 == DCall(f, "cfg_btn", path, TRUE)
        b2 == DCall(b1, "handle_alert", "cancel=False", TRUE)
    IN  IF Raised(l.ret) THEN l
        ELSE IF ~env.first THEN [b |-> c, ret |-> Raise("NoSuchElementException")]
        ELSE [b |-> b2, ret |-> PyNone]

\* wait_for_delete_all: env is "no_records", "records" or "candidate_not_found".
wait_for_delete_all(db, env) ==
    LET b1 == DCall(db, "refresh", "", env # "candidate_not_found")
        b2 == DCall(b1, "is_displayed_text", "No Records Found", TRUE)
    IN  IF env = "candidate_not_found" THEN [b |-> b1, ret |-> PyBool(FALSE)]
        ELSE IF env = "no_records" THEN [b |-> b2, ret |-> PyBool(TRUE)]
        ELSE [b |-> b2, ret |-> PyNone]

\* exists: env is what the browser does: "quad_missing" (the click on the
\* quadicon during navigation raises NoSuchElementException), "lookup_raises"
\* (is_displayed raises it), "not_displayed" or "displayed".
ExistsEnvs == {"quad_missing", "lookup_raises", "not_displayed", "displayed"}

exists(db, d, env) ==
    LET n == force_navigate_datastore(db, d, env # "quad_missing")
        b1 == DCall(n.b, "is_displayed", "Quadicon", env # "lookup_raises")
    IN  IF Raised(n.ret) THEN [b |-> n.b, ret |-> PyBool(FALSE)]
        ELSE IF env = "lookup_raises" THEN [b |-> b1, ret |-> PyBool(FALSE)]
        ELSE IF env = "displayed" THEN [b |-> b1, ret |-> PyBool(TRUE)]
        ELSE [b |-> b1, ret |-> PyNone]

\* run_smartstate_analysis: env = [found, flash].
run_smartstate_analysis(db, d, env) ==
    LET n == force_navigate_datastore(db, d, env.found)
        b1 == DCall(n.b, "tb.select", "Configuration/Perform SmartState Analysis", TRUE)
        b2 == DCall(b1, "handle_alert", "", TRUE)
        b3 == DCall(b2, "flash.assert_message_contain", "scan successfully initiated",
                    env.flash)
    IN  IF Raised(n.ret) THEN n
        ELSE IF ~env.flash THEN [b |-> b3, ret |-> Raise("FlashMessageException")]
        ELSE [b |-> b3, ret |-> PyNone]

\* Python's truth value and its not.
Truthy(v) == v = PyBool(TRUE)
py_not(v) == PyBool(~Truthy(v))

\* The timeouts of wait_for_delete and wait_for_appear, and wait_for's
\* default delay between polls.
WaitDeleteSec == 500
WaitAppearSec == 1000
wait_default_delay == 1

\* wait_for_delete and wait_for_appear have no return statement.
wait_returns(result) == PyNone

\* func of wait_for_delete: lambda: not self.exists
wait_for_delete_func(v) == py_not(v)

\* func of wait_for_appear: lambda: self.exists
wait_for_appear_func(v) == v

-----------------------------------------------------------------------------
\* The test driving the Datastore objects.

DSession == [page |-> page, trace |-> <<>>]

NavEnvs == { [found |-> f] : f \in BOOLEAN }
SubviewEnvs == { [found |-> TRUE, first |-> TRUE, second |-> TRUE, n |-> k] : k \in 0..MaxQuads }
                   \cup { [found |-> FALSE, first |-> TRUE, second |-> TRUE, n |-> 0],
                          [found |-> TRUE, first |-> FALSE, second |-> TRUE, n |-> 1],
                          [found |-> TRUE, first |-> FALSE, second |-> FALSE, n |-> 0] }
AnalysisEnvs == { [found |-> TRUE, flash |-> TRUE], [found |-> TRUE, flash |-> FALSE],
                  [found |-> FALSE, flash |-> TRUE] }

DReturns(op, d, arg, r) ==
    /\ page' = r.b.page
    /\ dtrace' = r.b.trace
    /\ dOp' = [op |-> op, ds |-> d, arg |-> arg]
    /\ dret' = r.ret
    /\ dcalls' = dcalls + 1
    /\ dpc' = "idle"
    /\ delapsed' = 0
    /\ dpolls' = 0
    /\ UNCHANGED version

DMayCall == dpc = "idle" /\ dcalls < MaxDCalls

Delete ==
    /\ DMayCall
    /\ \E d \in DatastoreNames, cancel \in {"cancel=True", "cancel=False"}, env \in NavEnvs :
           DReturns("delete", d, cancel, delete(DSession, d, cancel, env))
    /\ UNCHANGED <<dEnv, dExists>>

LoadDetails ==
    /\ DMayCall
    /\ \E d \in DatastoreNames, refresh \in BOOLEAN, env \in NavEnvs :
           DReturns("load_details", d, IF refresh THEN "refresh=True" ELSE "refresh=False",
                    load_details(DSession, d, refresh, env.found))
    /\ UNCHANGED <<dEnv, dExists>>

GetDetail ==
    /\ DMayCall
    /\ \E d \in DatastoreNames, env \in NavEnvs :
           DReturns("get_detail", d, "refresh=False", get_detail(DSession, d, env))
    /\ UNCHANGED <<dEnv, dExists>>

GetHosts ==
    /\ DMayCall
    /\ \E d \in DatastoreNames, env \in SubviewEnvs :
           DReturns("get_hosts", d, "", get_hosts(DSession, d, env))
    /\ UNCHANGED <<dEnv, dExists>>

GetVms ==
    /\ DMayCall
    /\ \E d \in DatastoreNames, env \in SubviewEnvs :
           DReturns("get_vms", d, "", get_vms(DSession, d, env))
    /\ UNCHANGED <<dEnv, dExists>>

DeleteAllAttachedVms ==
    /\ DMayCall
    /\ \E d \in DatastoreNames, env \in SubviewEnvs :
           DReturns("delete_all_attached_vms", d, "refresh=False",
                    delete_all_attached_vms(DSession, d, env))
    /\ UNCHANGED <<dEnv, dExists>>

DeleteAllAttachedHosts ==
    /\ DMayCall
    /\ \E d \in DatastoreNames, env \in SubviewEnvs :
           DReturns("delete_all_attached_hosts", d, "refresh=False",
                    delete_all_attached_hosts(DSession, d, env))
    /\ UNCHANGED <<dEnv, dExists>>

WaitForDeleteAll ==
    /\ DMayCall
    /\ \E d \in DatastoreNames, env \in {"no_records", "records", "candidate_not_found"} :
           DReturns("wait_for_delete_all", d, "", wait_for_delete_all(DSession, env))
    /\ UNCHANGED <<dEnv, dExists>>

RunSmartstateAnalysis ==
    /\ DMayCall
    /\ \E d \in DatastoreNames, env \in AnalysisEnvs :
           DReturns("run_smartstate_analysis", d, "", run_smartstate_analysis(DSession, d, env))
    /\ UNCHANGED <<dEnv, dExists>>

Exists ==
    /\ DMayCall
    /\ \E d \in DatastoreNames, env \in ExistsEnvs :
        LET r == exists(DSession, d, env)
        IN  /\ DReturns("exists", d, "", r)
            /\ dEnv' = env
            /\ dExists' = r.ret

\* wait_for_delete and wait_for_appear: to the list page, then wait_for.
StartsWaiting(op, d) ==
    LET b == force_navigate_list(DSession)
    IN  /\ page' = b.page
        /\ dtrace' = b.trace
        /\ dOp' = [op |-> op, ds |-> d, arg |-> ""]
        /\ dret' = Pending
        /\ dEnv' = "none"
        /\ dExists' = Pending
        /\ dcalls' = dcalls + 1
        /\ dpc' = "poll"
        /\ delapsed' = 0
        /\ dpolls' = 0
        /\ UNCHANGED version

WaitForDelete == DMayCall /\ \E d \in DatastoreNames : StartsWaiting("wait_for_delete", d)

WaitForAppear == DMayCall /\ \E d \in DatastoreNames : StartsWaiting("wait_for_appear", d)

DNumSec == IF dOp.op = "wait_for_delete" THEN WaitDeleteSec ELSE WaitAppearSec

\* One poll of the waiting loop: the lambda reads self.exists.
DWaitPoll ==
    /\ dpc = "poll"
    /\ \E env \in ExistsEnvs :
        LET r == exists(DSession, dOp.ds, env)
            out == IF dOp.op = "wait_for_delete" THEN wait_for_delete_func(r.ret)
                   ELSE wait_for_appear_func(r.ret)
        IN  /\ page' = r.b.page
            /\ dtrace' = r.b.trace
            /\ dEnv' = env
            /\ dExists' = r.ret
            /\ dpolls' = dpolls + 1
            /\ IF wait_for_retries(out, PyBool(FALSE))
               THEN dpc' = "sleep" /\ UNCHANGED dret
               ELSE dpc' = "idle" /\ dret' = wait_returns(PyResult(out))
    /\ UNCHANGED <<version, dOp, dcalls, delapsed>>

\* After a failed poll: sleep(delay), fail_func (sel.refresh), the loop test.
DWaitSleep ==
    /\ dpc = "sleep"
    /\ delapsed' = delapsed + wait_default_delay
    /\ dtrace' = Append(dtrace, [call |-> "refresh", arg |-> "", page |-> page, ok |-> TRUE])
    /\ IF wait_for_goes_on(delapsed', DNumSec)
       THEN dpc' = "poll" /\ UNCHANGED dret
       ELSE dpc' = "idle" /\ dret' = Raise("TimedOutError")
    /\ UNCHANGED <<version, page, dOp, dEnv, dExists, dcalls, dpolls>>

\* The browser starts on a page that is none of the datastore pages.
DatastoreInit ==
    /\ version \in Versions
    /\ page = NotLoaded
    /\ dtrace = <<>>
    /\ dOp = [op |-> "none", ds |-> "none", arg |-> "none"]
    /\ dret = Pending
    /\ dEnv = "none"
    /\ dExists = Pending
    /\ dcalls = 0
    /\ dpc = "idle"
    /\ delapsed = 0
    /\ dpolls = 0

DatastoreNext ==
    \/ Delete /\ UNCHANGED consoleVars
    \/ LoadDetails /\ UNCHANGED consoleVars
    \/ GetDetail /\ UNCHANGED consoleVars
    \/ GetHosts /\ UNCHANGED consoleVars
    \/ GetVms /\ UNCHANGED consoleVars
    \/ DeleteAllAttachedVms /\ UNCHANGED consoleVars
    \/ DeleteAllAttachedHosts /\ UNCHANGED consoleVars
    \/ WaitForDeleteAll /\ UNCHANGED consoleVars
    \/ RunSmartstateAnalysis /\ UNCHANGED consoleVars
    \/ Exists /\ UNCHANGED consoleVars
    \/ WaitForDelete /\ UNCHANGED consoleVars
    \/ WaitForAppear /\ UNCHANGED consoleVars
    \/ DWaitPoll /\ UNCHANGED consoleVars
    \/ DWaitSleep /\ UNCHANGED consoleVars

\* The datastore test opens no console.
DatastoreTestInit == DatastoreInit /\ ConsoleInit

DatastoreSpec == DatastoreTestInit /\ [][DatastoreNext]_vars

-----------------------------------------------------------------------------
\* Claims about Datastore (checked under DatastoreSpec).

\* C6: exists returns False, and raises nothing, whenever the quadicon is
\* absent after navigation - the lookup raised, or it was found but is not
\* displayed - and its result is always one of True and False.
C6_ExistsFalseWhenAbsent ==
    dOp.op = "exists" =>
        /\ dret \in {PyBool(TRUE), PyBool(FALSE)}
        /\ (dEnv \in {"quad_missing", "lookup_raises", "not_displayed"} => dret = PyBool(FALSE))
        /\ (dEnv = "displayed" => dret = PyBool(TRUE))

\* C7: wait_for_delete (500s) and wait_for_appear (1000s) are bounded polls
\* of exists: wait_for_delete succeeds only after a poll that found the
\* datastore not to exist, wait_for_appear only after a poll in which exists
\* was true, a datastore not found raises nothing out of the poll, and a
\* condition never met ends in a timeout error.
C7_WaitsEndOnTheirCondition ==
    dOp.op \in {"wait_for_delete", "wait_for_appear"} =>
        /\ delapsed <= DNumSec + 1
        /\ dpolls <= DNumSec + 1
        /\ (dpc # "idle" => ENABLED (DWaitPoll \/ DWaitSleep))
        /\ (dpc = "idle" /\ Raised(dret) => dret = Raise("TimedOutError") /\ delapsed > DNumSec)
        /\ (dpc = "idle" /\ ~Raised(dret) /\ dOp.op = "wait_for_delete"
                => dEnv # "displayed" /\ dExists # PyBool(TRUE))
        /\ (dpc = "idle" /\ ~Raised(dret) /\ dOp.op = "wait_for_appear"
                => dEnv = "displayed" /\ dExists = PyBool(TRUE))

\* The steps that click, select or fill, and the page each must be taken on.
ActsOnDetail == {"cfg_btn", "tb.select", "click", "list_acc.select", "infoblock.text",
                 "tb.refresh"}

OnOwnSubview(e, d) ==
    \/ e.page = HostsPage(d) /\ dOp.op \in {"delete_all_attached_hosts", "get_hosts"}
    \/ e.page = VMsPage(d) /\ dOp.op \in {"delete_all_attached_vms", "get_vms"}

\* C8: every click, selection and checkbox fill of an action is made on the
\* right page of its own datastore (the detail page, or the subview entered
\* from it for the fills and the removal that follows them); load_details
\* navigates only when the detail page is not shown and refreshes only when
\* it is shown and refresh=True; a subview is entered only by a click on the
\* detail page of the same datastore.
C8_ActsOnTheRightPage ==
    LET d == dOp.ds
        usesLoad == dOp.op \in {"load_details", "get_detail", "delete_all_attached_vms",
                                "delete_all_attached_hosts"}
        fillsAt(i) == \E j \in 1..(i - 1) : dtrace[j].call = "Quadicon.all"
    IN  dOp.op \in {"delete", "run_smartstate_analysis", "get_hosts", "get_vms",
                    "delete_all_attached_vms", "delete_all_attached_hosts",
                    "load_details", "get_detail"} =>
        /\ \A i \in 1..Len(dtrace) :
            LET e == dtrace[i]
            IN  /\ (e.call \in ActsOnDetail /\ ~fillsAt(i) => e.page = DetailPage(d))
                /\ (e.call \in {"fill", "Quadicon.all"} \/ fillsAt(i) => OnOwnSubview(e, d))
                /\ (e.call = "force_navigate" =>
                        /\ i = 1
                        /\ (usesLoad => e.page # DetailPage(d)))
                /\ (e.call = "tb.refresh" => dOp.arg = "refresh=True" /\ i = 1)
        /\ (page.kind \in {"Hosts", "VMs"} /\ dtrace # <<>> /\ dtrace[1].page # page =>
                \E i \in 1..Len(dtrace) :
                    /\ dtrace[i].call \in {"click", "list_acc.select"}
                    /\ dtrace[i].ok
                    /\ dtrace[i].page = DetailPage(page.name)
                    /\ page.name = d)
        /\ (usesLoad /\ ~Raised(dret) /\ dtrace = <<>> => page = DetailPage(d))

C8_Witness ==
    /\ dOp.op = "delete_all_attached_vms"
    /\ ~Raised(dret)
    /\ page = VMsPage("ds2")
    /\ dtrace[1].call = "force_navigate"
    /\ dtrace[1].page = HostsPage("ds1")
    /\ \E i \in 1..Len(dtrace) : dtrace[i].call = "fill"

====
